---- MODULE Spec2Model ----
(***************************************************************************)
(* Model of the data-fetch / normalize contract of src/src/App.jsx:        *)
(*   - useApi (the fetch client hook, lines 96-124), one client instance   *)
(*     with any number of overlapping execute() invocations;               *)
(*   - num (the numeric normalizer, lines 21-27);                          *)
(*   - normalizePortfolioRow (lines 30-53);                                *)
(*   - the request execute() builds (lines 105-109);                       *)
(*   - App's page views, each owning a fetch client (lines 926-988);       *)
(*   - the rendering of a Fetch Result by the four kinds of page;          *)
(*   - ComparePage's symbol field and requests (lines 843-871);            *)
(*   - StocksListPage's renders and mount effect (lines 364-370).          *)
(* JavaScript is single threaded: every action below is one run-to-        *)
(* completion slice of the event loop (a handler, or the continuation of   *)
(* an await).                                                              *)
(***************************************************************************)
EXTENDS Integers, Sequences, FiniteSets, TLC

VARIABLES data, loading, error, reqs, nInvoked, netCalls, settleOrder,
          numIn, numOut,
          rowIn, rowOut,
          callIn, callOut,
          page, views,
          renderIn, renderOut,
          compare, stocks

vars == <<data, loading, error, reqs, nInvoked, netCalls, settleOrder,
          numIn, numOut, rowIn, rowOut, callIn, callOut,
          page, views, renderIn, renderOut, compare, stocks>>

fetchVars == <<data, loading, error, reqs, nInvoked, netCalls, settleOrder>>
numVars == <<numIn, numOut>>
rowVars == <<rowIn, rowOut>>
callVars == <<callIn, callOut>>
appVars == <<page, views>>
renderVars == <<renderIn, renderOut>>
pageVars == <<compare, stocks>>
\* everything outside the fetch client / outside num / outside the row
\* normalizer / outside the request construction
offClient == <<numVars, rowVars, callVars, appVars, renderVars, pageVars>>
offNum == <<fetchVars, rowVars, callVars, appVars, renderVars, pageVars>>
offRow == <<fetchVars, numVars, callVars, appVars, renderVars, pageVars>>
offCall == <<fetchVars, numVars, rowVars, appVars, renderVars, pageVars>>
offApp == <<fetchVars, numVars, rowVars, callVars, renderVars, pageVars>>
offRender == <<fetchVars, numVars, rowVars, callVars, appVars, pageVars>>
offCompare == <<fetchVars, numVars, rowVars, callVars, appVars, renderVars, stocks>>
offStocks == <<fetchVars, numVars, rowVars, callVars, appVars, renderVars, compare>>

\* ------------------------------------------------------------------------
\* Bounds
\* ------------------------------------------------------------------------
\* number of execute() invocations on the client that are explored
MaxCalls == 2
\* longest raw string handed to num
MaxStrLen == 5
\* longest display-formatted string (number plus decoration) handed to num
MaxTextLen == 4
\* page views mounted in one session, and execute() invocations after which
\* the handlers of the views invoke no further one
MaxViews == 3
MaxViewCalls == 2
\* requests one Compare page issues
MaxCompareCalls == 2

\* ------------------------------------------------------------------------
\* JavaScript values of the fetch client
\* ------------------------------------------------------------------------
Null == "null"
Undefined == "undefined"
\* two distinguishable payloads a success envelope can carry
Payloads == {"D1", "D2"}

GenericMsg == "An unknown error occurred"
\* message of the TypeError fetch() rejects with on a network failure
NetMsg == "Failed to fetch"
\* message of the SyntaxError response.json() rejects with
ParseMsg == "Unexpected token < in JSON"
\* message of the TypeError raised by reading .success of a JSON null
NullMsg == "Cannot read properties of null (reading 'success')"

\* values the envelope's success / data / error fields take on the wire
SuccessVals == {"true", "false", Undefined}
DataVals == Payloads \cup {Undefined}
ErrorVals == {"bad symbol", "", Undefined}

\* what response.json() can resolve to: an envelope object, or JSON null.
\* The code reads data only of a truthy envelope and error only of a falsy
\* one, so the other field varies in one envelope of each kind.
Envelope(s, d, e) == [isNull |-> FALSE, success |-> s, data |-> d, error |-> e]
Envelopes ==
    {Envelope("true", d, Undefined) : d \in DataVals}
      \cup {Envelope(s, Undefined, e) : s \in SuccessVals \ {"true"}, e \in ErrorVals}
      \cup {Envelope("true", "D1", "bad symbol"), Envelope("false", "D1", Undefined)}
      \cup {[isNull |-> TRUE, success |-> Undefined, data |-> Undefined, error |-> Undefined]}

\* JavaScript truthiness of the values above
Truthy(v) == v \notin {"false", Undefined, Null, ""}

\* the value a request's execute() promise holds
NoRet == [settled |-> "pending", success |-> "none", value |-> "none"]
RetOk(d) == [settled |-> "resolved", success |-> "true", value |-> d]
RetFail(m) == [settled |-> "resolved", success |-> "false", value |-> m]
RetRejected(m) == [settled |-> "rejected", success |-> "none", value |-> m]

ReqIds == 1..MaxCalls

\* what the transport delivered to a request: nothing yet, a network failure,
\* a body that is not JSON, or a parsed JSON result
NoEnvelope == [isNull |-> FALSE, success |-> Undefined, data |-> Undefined, error |-> Undefined]
Got(kind, env) == [kind |-> kind, env |-> env]

IdleReq == [pc |-> "idle", ret |-> NoRet, got |-> Got("none", NoEnvelope),
            alone |-> TRUE, data0 |-> Null]

InFlight == {r \in ReqIds : reqs[r].pc \in {"fetch", "json"}}

\* ------------------------------------------------------------------------
\* useApi: state after the hook's first render
\* ------------------------------------------------------------------------
useApiInit ==
    /\ data = Null
    /\ loading = FALSE
    /\ error = Null
    /\ reqs = [r \in ReqIds |-> IdleReq]
    /\ nInvoked = 0
    /\ netCalls = 0
    /\ settleOrder = << >>

\* execute without the setError(null) of line 103
executeKeepError ==
    /\ nInvoked < MaxCalls
    /\ LET r == nInvoked + 1 IN
        /\ loading' = TRUE
        /\ netCalls' = netCalls + 1
        /\ nInvoked' = r
        /\ reqs' = [q \in ReqIds |->
                      IF q = r THEN [pc |-> "fetch", ret |-> NoRet,
                                     got |-> Got("none", NoEnvelope),
                                     alone |-> (InFlight = {}), data0 |-> data]
                      ELSE IF q \in InFlight THEN [reqs[q] EXCEPT !.alone = FALSE]
                      ELSE reqs[q]]
    /\ UNCHANGED <<data, error, settleOrder, offClient>>

\* execute(body): the synchronous part up to the first await
\* (setLoading(true); setError(null); build the options; call fetch).
\* got/alone/data0 record, per invocation, what the transport delivered,
\* whether it overlapped another invocation and the data it found; they are
\* read by no action.
execute ==
    /\ nInvoked < MaxCalls
    /\ LET r == nInvoked + 1 IN
        /\ loading' = TRUE
        /\ error' = Null
        /\ netCalls' = netCalls + 1
        /\ nInvoked' = r
        /\ reqs' = [q \in ReqIds |->
                      IF q = r THEN [pc |-> "fetch", ret |-> NoRet,
                                     got |-> Got("none", NoEnvelope),
                                     alone |-> (InFlight = {}), data0 |-> data]
                      ELSE IF q \in InFlight THEN [reqs[q] EXCEPT !.alone = FALSE]
                      ELSE reqs[q]]
    /\ UNCHANGED <<data, settleOrder, offClient>>

\* a catch path without the finally block: loading is left as it is
CatchNoFinally(r, got, msg) ==
    /\ error' = msg
    /\ reqs' = [reqs EXCEPT ![r].pc = "done", ![r].ret = RetFail(msg), ![r].got = got]
    /\ settleOrder' = Append(settleOrder, r)
    /\ UNCHANGED <<data, loading, nInvoked, netCalls, offClient>>

\* catch (err) { setError(err.message); return {success:false, error} }
\* finally { setLoading(false) }
CatchFinally(r, got, msg) ==
    /\ error' = msg
    /\ loading' = FALSE
    /\ reqs' = [reqs EXCEPT ![r].pc = "done", ![r].ret = RetFail(msg), ![r].got = got]
    /\ settleOrder' = Append(settleOrder, r)
    /\ UNCHANGED <<data, nInvoked, netCalls, offClient>>

\* a success path guarded by a request generation: only the latest invocation
\* may write data
SucceedFinallyLatestOnly(r, got, d) ==
    /\ data' = (IF r = nInvoked THEN d ELSE data)
    /\ loading' = FALSE
    /\ reqs' = [reqs EXCEPT ![r].pc = "done", ![r].ret = RetOk(d), ![r].got = got]
    /\ settleOrder' = Append(settleOrder, r)
    /\ UNCHANGED <<error, nInvoked, netCalls, offClient>>

\* a success path that returns the envelope's data without setData
SucceedFinallyNoSetData(r, got, d) ==
    /\ loading' = FALSE
    /\ reqs' = [reqs EXCEPT ![r].pc = "done", ![r].ret = RetOk(d), ![r].got = got]
    /\ settleOrder' = Append(settleOrder, r)
    /\ UNCHANGED <<data, error, nInvoked, netCalls, offClient>>

\* setData(result.data); return {success:true, data}; finally setLoading(false)
SucceedFinally(r, got, d) ==
    /\ data' = d
    /\ loading' = FALSE
    /\ reqs' = [reqs EXCEPT ![r].pc = "done", ![r].ret = RetOk(d), ![r].got = got]
    /\ settleOrder' = Append(settleOrder, r)
    /\ UNCHANGED <<error, nInvoked, netCalls, offClient>>

\* await fetch(...) fulfils: the continuation calls response.json()
FetchFulfil(r) ==
    /\ reqs[r].pc = "fetch"
    /\ reqs' = [reqs EXCEPT ![r].pc = "json"]
    /\ UNCHANGED <<data, loading, error, nInvoked, netCalls, settleOrder, offClient>>

\* a network failure that re-issues the call instead of surfacing the error
FetchRejectRetry(r) ==
    /\ reqs[r].pc = "fetch"
    /\ netCalls' = netCalls + 1
    /\ UNCHANGED <<data, loading, error, reqs, nInvoked, settleOrder, offClient>>

\* await fetch(...) rejects (network failure)
FetchReject(r) ==
    /\ reqs[r].pc = "fetch"
    /\ CatchFinally(r, Got("netfail", NoEnvelope), NetMsg)

\* response.json() awaited outside the try block: the rejection escapes
JsonRejectUncaught(r) ==
    /\ reqs[r].pc = "json"
    /\ reqs' = [reqs EXCEPT ![r].pc = "done", ![r].ret = RetRejected(ParseMsg),
                              ![r].got = Got("parsefail", NoEnvelope)]
    /\ settleOrder' = Append(settleOrder, r)
    /\ UNCHANGED <<data, loading, error, nInvoked, netCalls, offClient>>

\* await response.json() rejects (body is not JSON)
JsonReject(r) ==
    /\ reqs[r].pc = "json"
    /\ CatchFinally(r, Got("parsefail", NoEnvelope), ParseMsg)

\* result.error without the fallback message
ErrMessageNoFallback(result) == result.error

\* result.error || 'An unknown error occurred'
ErrMessage(result) == IF Truthy(result.error) THEN result.error ELSE GenericMsg

\* await response.json() fulfils with result: lines 112-114
JsonFulfil(r, result) ==
    /\ reqs[r].pc = "json"
    /\ IF result.isNull THEN CatchFinally(r, Got("json", result), NullMsg)
       ELSE IF ~Truthy(result.success)
            THEN CatchFinally(r, Got("json", result), ErrMessage(result))
       ELSE SucceedFinally(r, Got("json", result), result.data)

\* ------------------------------------------------------------------------
\* JavaScript values handed to num
\* ------------------------------------------------------------------------
\* A value is a record [t, k, neg, m, e, s]: t is the typeof tag; a number is
\* NaN (k = "nan"), an infinity (k = "inf", sign neg) or the finite double
\* (-1)^neg * m * 10^e (k = "fin"), kept normalised (m has no trailing zero,
\* and e = 0 when m = 0; neg distinguishes -0 from +0); a string carries its
\* characters in s.
JsVal(t, k, neg, m, e, s) == [t |-> t, k |-> k, neg |-> neg, m |-> m, e |-> e, s |-> s]
NoValue == JsVal("none", "none", FALSE, 0, 0, << >>)
JsNull == JsVal("null", "none", FALSE, 0, 0, << >>)
JsUndefined == JsVal("undefined", "none", FALSE, 0, 0, << >>)
JsNaN == JsVal("number", "nan", FALSE, 0, 0, << >>)
JsInf(neg) == JsVal("number", "inf", neg, 0, 0, << >>)
JsFin(neg, m, e) == JsVal("number", "fin", neg, m, e, << >>)
JsStr(s) == JsVal("string", "none", FALSE, 0, 0, s)
Zero == JsFin(FALSE, 0, 0)

Digits == {"0", "1", "2", "3", "4", "5", "6", "7", "8", "9"}
DigitSeq == <<"0", "1", "2", "3", "4", "5", "6", "7", "8", "9">>
DigitVal(c) == (CHOOSE i \in 1..10 : DigitSeq[i] = c) - 1

\* the characters /[^\d.\-\+eE]/g leaves in place
KeptChars == Digits \cup {".", "-", "+", "e", "E"}

\* largest and smallest decimal exponent (of d.ddd * 10^E) of a double
MaxExp10 == 308
MinExp10 == -324
\* leading nine digits of Number.MAX_VALUE's rounding boundary, 1.79769313486...e308
MaxLead9 == 179769313

RECURSIVE Pow10(_)
Pow10(n) == IF n = 0 THEN 1 ELSE 10 * Pow10(n - 1)

RECURSIVE NumDigits(_)
NumDigits(m) == IF m < 10 THEN 1 ELSE 1 + NumDigits(m \div 10)

RECURSIVE IntOf(_)
IntOf(ds) == IF ds = << >> THEN 0
             ELSE 10 * IntOf(SubSeq(ds, 1, Len(ds) - 1)) + DigitVal(ds[Len(ds)])

IsDigits(ds) == \A i \in 1..Len(ds) : ds[i] \in Digits

\* index of the first character of str that is in cs, 0 when there is none
IndexOf(str, cs) ==
    IF \E i \in 1..Len(str) : str[i] \in cs
    THEN CHOOSE i \in 1..Len(str) : str[i] \in cs /\ \A j \in 1..(i - 1) : str[j] \notin cs
    ELSE 0

RECURSIVE StripZeros(_, _)
StripZeros(m, e) == IF m = 0 THEN <<0, 0>>
                    ELSE IF m % 10 = 0 THEN StripZeros(m \div 10, e + 1)
                    ELSE <<m, e>>

\* the double nearest to (-1)^neg * m * 10^e: overflow gives an infinity,
\* underflow a signed zero (mantissas have at most nine digits here; the
\* subnormal range is kept in decimal form)
ToDouble(neg, m, e) ==
    LET n == StripZeros(m, e)
        nd == NumDigits(n[1])
        mag == nd + n[2] - 1
    IN  IF n[1] = 0 THEN JsFin(neg, 0, 0)
        ELSE IF mag > MaxExp10 THEN JsInf(neg)
        ELSE IF mag = MaxExp10 /\ nd <= 9 /\ n[1] * Pow10(9 - nd) > MaxLead9 THEN JsInf(neg)
        ELSE IF mag < MinExp10 THEN JsFin(neg, 0, 0)
        ELSE JsFin(neg, n[1], n[2])

\* Number(str) for a string without white space: the StringNumericLiteral
\* grammar, sign? (digits [. digits?] | . digits) [(e|E) sign? digits];
\* the empty string is 0 and anything else NaN
StringToNumber(str) ==
    IF str = << >> THEN Zero
    ELSE
    LET signed == str[1] \in {"+", "-"}
        neg == str[1] = "-"
        body == IF signed THEN Tail(str) ELSE str
        ePos == IndexOf(body, {"e", "E"})
        mant == IF ePos = 0 THEN body ELSE SubSeq(body, 1, ePos - 1)
        expo == IF ePos = 0 THEN << >> ELSE SubSeq(body, ePos + 1, Len(body))
        expSigned == expo # << >> /\ expo[1] \in {"+", "-"}
        expNeg == expo # << >> /\ expo[1] = "-"
        expDigits == IF expSigned THEN Tail(expo) ELSE expo
        dot == IndexOf(mant, {"."})
        ip == IF dot = 0 THEN mant ELSE SubSeq(mant, 1, dot - 1)
        fp == IF dot = 0 THEN << >> ELSE SubSeq(mant, dot + 1, Len(mant))
        validMant == IsDigits(ip) /\ IsDigits(fp) /\ Len(ip) + Len(fp) > 0
        validExp == ePos = 0 \/ (expDigits # << >> /\ IsDigits(expDigits))
        expVal == IF expNeg THEN 0 - IntOf(expDigits) ELSE IntOf(expDigits)
    IN  IF validMant /\ validExp
        THEN ToDouble(neg, IntOf(ip \o fp), expVal - Len(fp))
        ELSE JsNaN

JsBool(b) == JsVal("boolean", "none", FALSE, IF b THEN 1 ELSE 0, 0, << >>)
\* a plain nested object
JsObj == JsVal("object", "none", FALSE, 0, 0, << >>)

\* String(v): a string is itself, a boolean "true"/"false", a plain object
\* "[object Object]"
JsString(v) ==
    CASE v.t = "boolean" -> (IF v.m = 1 THEN <<"t", "r", "u", "e">>
                                        ELSE <<"f", "a", "l", "s", "e">>)
      [] v.t = "object" -> <<"[", "o", "b", "j", "e", "c", "t", " ",
                             "O", "b", "j", "e", "c", "t", "]">>
      [] OTHER -> v.s

\* String(v).replace(/[^\d.\-\+eE]/g, '')
Cleaned(v) == SelectSeq(JsString(v), LAMBDA c : c \in KeptChars)

isFinite(v) == v.t = "number" /\ v.k = "fin"
isNaN(v) == v.t = "number" /\ v.k = "nan"

\* num returning the absent value itself instead of 0
numAbsentPassThrough(v) ==
    IF v.t = "null" \/ v.t = "undefined" \/ (v.t = "string" /\ v.s = << >>) THEN v
    ELSE IF v.t = "number" THEN (IF isFinite(v) THEN v ELSE Zero)
    ELSE LET parsed == StringToNumber(Cleaned(v))
         IN  IF isNaN(parsed) THEN Zero ELSE parsed

\* num testing numbers with isNaN instead of isFinite
numNaNOnly(v) ==
    IF v.t = "null" \/ v.t = "undefined" \/ (v.t = "string" /\ v.s = << >>) THEN Zero
    ELSE IF v.t = "number" THEN (IF isNaN(v) THEN Zero ELSE v)
    ELSE LET parsed == StringToNumber(Cleaned(v))
         IN  IF isNaN(parsed) THEN Zero ELSE parsed

\* const num = (v) => ...
num(v) ==
    IF v.t = "null" \/ v.t = "undefined" \/ (v.t = "string" /\ v.s = << >>) THEN Zero
    ELSE IF v.t = "number" THEN (IF isFinite(v) THEN v ELSE Zero)
    ELSE LET parsed == StringToNumber(Cleaned(v))
         IN  IF isNaN(parsed) THEN Zero ELSE parsed

\* ------------------------------------------------------------------------
\* normalizePortfolioRow
\* ------------------------------------------------------------------------
\* the backend aliases of each canonical field, in the order they are probed
symbolAliases == <<"symbol", "ticker">>
companyAliases == <<"company", "name">>
priceAliases == <<"price", "current_price", "entry_price", "avg_price", "ltp">>
stopLossAliases == <<"stop_loss", "stoploss", "sl", "stop">>
allocAliases == <<"percentage_allocation", "allocation_pct", "alloc_percent", "allocation">>
sharesAliases == <<"number_of_shares", "shares", "qty", "quantity">>
riskAliases == <<"risk", "risk_amount", "max_risk">>

Range(seq) == {seq[i] : i \in 1..Len(seq)}

\* every key normalizePortfolioRow reads; a key the payload lacks reads as
\* undefined
RowKeys ==
    Range(symbolAliases) \cup Range(companyAliases) \cup Range(priceAliases)
      \cup Range(stopLossAliases) \cup Range(allocAliases) \cup Range(sharesAliases)
      \cup Range(riskAliases) \cup {"score", "investment_amount"}

Nullish(v) == v.t = "null" \/ v.t = "undefined"

\* JavaScript truthiness of a value
JsTruthy(v) ==
    CASE v.t \in {"null", "undefined", "none"} -> FALSE
      [] v.t = "number" -> v.k = "inf" \/ (v.k = "fin" /\ v.m # 0)
      [] v.t = "string" -> v.s # << >>
      [] v.t = "boolean" -> v.m = 1
      [] OTHER -> TRUE

\* the ?? chain probed from its last alias to its first
RECURSIVE CoalesceLastWins(_, _, _)
CoalesceLastWins(s, aliases, fallback) ==
    IF aliases = << >> THEN fallback
    ELSE IF ~Nullish(s[aliases[Len(aliases)]]) THEN s[aliases[Len(aliases)]]
    ELSE CoalesceLastWins(s, SubSeq(aliases, 1, Len(aliases) - 1), fallback)

\* a ?? b ?? ... ?? fallback with || in place of ??
RECURSIVE CoalesceFalsy(_, _, _)
CoalesceFalsy(s, aliases, fallback) ==
    IF aliases = << >> THEN fallback
    ELSE IF JsTruthy(s[Head(aliases)]) THEN s[Head(aliases)]
    ELSE CoalesceFalsy(s, Tail(aliases), fallback)

\* s.a ?? s.b ?? ... ?? fallback
RECURSIVE Coalesce(_, _, _)
Coalesce(s, aliases, fallback) ==
    IF aliases = << >> THEN fallback
    ELSE IF ~Nullish(s[Head(aliases)]) THEN s[Head(aliases)]
    ELSE Coalesce(s, Tail(aliases), fallback)

\* s.a || s.b without the trailing || ''
RECURSIVE OrChainNoFallback(_, _, _)
OrChainNoFallback(s, aliases, fallback) ==
    IF Len(aliases) = 1 THEN s[Head(aliases)]
    ELSE IF JsTruthy(s[Head(aliases)]) THEN s[Head(aliases)]
    ELSE OrChainNoFallback(s, Tail(aliases), fallback)

\* s.a || s.b || fallback
RECURSIVE OrChain(_, _, _)
OrChain(s, aliases, fallback) ==
    IF aliases = << >> THEN fallback
    ELSE IF JsTruthy(s[Head(aliases)]) THEN s[Head(aliases)]
    ELSE OrChain(s, Tail(aliases), fallback)

\* Math.round(v): the nearest integer, ties towards +Infinity; NaN and the
\* infinities are returned as they are, a negative value that rounds to zero
\* gives -0
MathRound(v) ==
    IF v.k # "fin" \/ v.e >= 0 THEN v
    ELSE IF 0 - v.e > NumDigits(v.m) THEN JsFin(v.neg, 0, 0)
    ELSE LET p == Pow10(0 - v.e)
             q == v.m \div p
             rem == v.m % p
             up == IF v.neg THEN 2 * rem > p ELSE 2 * rem >= p
             n == StripZeros(IF up THEN q + 1 ELSE q, 0)
         IN  JsFin(v.neg, n[1], n[2])

\* const normalizePortfolioRow = (s) => ...
normalizePortfolioRow(s) ==
    LET price == Coalesce(s, priceAliases, Zero)
        stopLoss == Coalesce(s, stopLossAliases, Zero)
        alloc == Coalesce(s, allocAliases, Zero)
        shares == Coalesce(s, sharesAliases, Zero)
        risk == Coalesce(s, riskAliases, Zero)
    IN  [symbol |-> OrChain(s, symbolAliases, JsStr(<< >>)),
         company |-> OrChain(s, companyAliases, JsStr(<< >>)),
         score |-> num(s["score"]),
         price |-> num(price),
         stop_loss |-> num(stopLoss),
         percentage_allocation |-> num(alloc),
         number_of_shares |-> MathRound(num(shares)),
         risk |-> num(risk),
         investment_amount |-> num(s["investment_amount"])]

\* the mapping without any key, and the row before normalizePortfolioRow ran
EmptyRow == [k \in RowKeys |-> JsUndefined]
NoRow == [symbol |-> NoValue, company |-> NoValue, score |-> NoValue, price |-> NoValue,
          stop_loss |-> NoValue, percentage_allocation |-> NoValue,
          number_of_shares |-> NoValue, risk |-> NoValue, investment_amount |-> NoValue]

RowIdle == rowIn = EmptyRow /\ rowOut = NoRow

\* ------------------------------------------------------------------------
\* execute(body): construction of the request handed to fetch
\* ------------------------------------------------------------------------
\* a property an object does not have
Missing == "absent"
\* header names a caller can configure
HeaderNames == {"Content-Type", "Authorization"}
\* { 'Content-Type': 'application/json' }
DefaultHeaders ==
    [h \in HeaderNames |-> IF h = "Content-Type" THEN "application/json" ELSE Missing]
\* { ...a, ...b } on header objects: a key of b replaces the same key of a
Spread(a, b) == [h \in HeaderNames |-> IF b[h] # Missing THEN b[h] ELSE a[h]]

RECURSIVE DigitsOf(_)
DigitsOf(m) == IF m < 10 THEN <<DigitSeq[m + 1]>>
               ELSE Append(DigitsOf(m \div 10), DigitSeq[(m % 10) + 1])

RECURSIVE Repeat(_, _)
Repeat(c, n) == IF n <= 0 THEN << >> ELSE <<c>> \o Repeat(c, n - 1)

\* Number::toString of a finite number m * 10^e (radix 10)
NumberToString(v) ==
    IF v.m = 0 THEN <<"0">>
    ELSE LET ds == DigitsOf(v.m)
             k == Len(ds)
             n == k + v.e
             ex == n - 1
             mant == IF k = 1 THEN ds ELSE <<ds[1], ".">> \o SubSeq(ds, 2, k)
         IN  (IF v.neg THEN <<"-">> ELSE << >>) \o
             (IF k <= n /\ n <= 21 THEN ds \o Repeat("0", n - k)
              ELSE IF 0 < n /\ n <= 21
                THEN SubSeq(ds, 1, n) \o <<".">> \o SubSeq(ds, n + 1, k)
              ELSE IF -6 < n /\ n <= 0 THEN <<"0", ".">> \o Repeat("0", 0 - n) \o ds
              ELSE mant \o <<"e", IF ex < 0 THEN "-" ELSE "+">>
                        \o DigitsOf(IF ex < 0 THEN 0 - ex ELSE ex))

\* the characters of a JSON string literal: quote and backslash are escaped
RECURSIVE QuoteChars(_)
QuoteChars(s) ==
    IF s = << >> THEN << >>
    ELSE (IF Head(s) \in {"\"", "\\"} THEN <<"\\", Head(s)>> ELSE <<Head(s)>>)
           \o QuoteChars(Tail(s))

\* an object with the given members, in insertion order
Member(key, val) == [key |-> key, val |-> val]
JsObject(members) == JsVal("object", "none", FALSE, 0, 0, members)

\* the JSON text of a value other than undefined: NaN and the infinities
\* become null, a member whose value is undefined is left out
RECURSIVE JsonText(_)
RECURSIVE JsonMembers(_, _)
JsonMembers(ms, sep) ==
    IF ms = << >> THEN << >>
    ELSE IF Head(ms).val.t = "undefined" THEN JsonMembers(Tail(ms), sep)
    ELSE sep \o <<"\"">> \o QuoteChars(Head(ms).key) \o <<"\"", ":">>
             \o JsonText(Head(ms).val) \o JsonMembers(Tail(ms), <<",">>)
JsonText(v) ==
    CASE v.t = "string" -> <<"\"">> \o QuoteChars(v.s) \o <<"\"">>
      [] v.t = "number" /\ v.k = "fin" -> NumberToString(v)
      [] v.t = "boolean" -> JsString(v)
      [] v.t = "object" -> <<"{">> \o JsonMembers(v.s, << >>) \o <<"}">>
      [] OTHER -> <<"n", "u", "l", "l">>

\* JSON.stringify(v): a string, or undefined for undefined
JSONStringify(v) == IF v.t = "undefined" THEN JsUndefined ELSE JsStr(JsonText(v))

\* async (body = null) => ...: the parameter of an invocation that passes
\* arg, or nothing
BodyParam(supplied, arg) == IF supplied /\ arg.t # "undefined" THEN arg ELSE JsNull

\* const fetchOptions = { ...options, headers: {...} };
\* if (body) fetchOptions.body = JSON.stringify(body);
fetchOptions(options, body) ==
    [method |-> options.method,
     credentials |-> options.credentials,
     headers |-> Spread(DefaultHeaders, options.headers),
     body |-> IF JsTruthy(body) THEN JSONStringify(body) ELSE NoValue]

NoHeaders == [h \in HeaderNames |-> Missing]
NoOptions == [method |-> Missing, credentials |-> Missing, headers |-> NoHeaders]
\* no request built yet
NoCall == [method |-> Missing, credentials |-> Missing, headers |-> NoHeaders,
           body |-> NoValue]
IdleCall == [options |-> NoOptions, supplied |-> FALSE, body |-> JsUndefined]
CallIdle == callIn = IdleCall /\ callOut = NoCall

\* ------------------------------------------------------------------------
\* App: the page shown and the page views that own a fetch client
\* ------------------------------------------------------------------------
\* the cases of renderPage
Pages == {"home", "stocks", "analyze_swing", "analyze_position",
          "portfolio_swing", "portfolio_position", "compare"}
\* the pages whose component calls useApi
ClientPages == Pages \ {"home"}

ViewIds == 1..MaxViews
\* A view is one mounted instance of a page component under key={page}.
\* status: unborn (not created), rendered (first render committed, effects
\* pending), mounted, exiting (AnimatePresence plays its exit), discarded
\* (unmounted). data/loading/error are the useState cells of its useApi;
\* calls holds the position of each execute() it invoked.
NoView == [page |-> "none", status |-> "unborn", data |-> Null, loading |-> FALSE,
           error |-> Null, calls |-> << >>]
\* useState(null), useState(false), useState(null)
FreshView(p) == [page |-> p, status |-> "rendered", data |-> Null, loading |-> FALSE,
                 error |-> Null, calls |-> << >>]
Created == {v \in ViewIds : views[v].status # "unborn"}
\* execute() invocations of all views so far
RECURSIVE CallsUpTo(_)
CallsUpTo(v) == IF v = 0 THEN 0 ELSE Len(views[v].calls) + CallsUpTo(v - 1)
TotalCalls == CallsUpTo(MaxViews)
EffectsPending == \E v \in ViewIds : views[v].status = "rendered"

\* what a settling request delivers: a success envelope's data, or a failure
Outcomes == {[ok |-> TRUE, value |-> "D1"], [ok |-> FALSE, value |-> NetMsg]}

AppInit ==
    /\ page = "home"
    /\ views = [v \in ViewIds |-> IF v = 1 THEN FreshView("home") ELSE NoView]
AppIdle == page = "home" /\ views = [v \in ViewIds |-> NoView]

\* ------------------------------------------------------------------------
\* Rendering of the pages that own a fetch client
\* ------------------------------------------------------------------------
\* The data of a Fetch Result, by what the page components read of it:
\*   t          undefined, null, or an object
\*   stocks     data.stocks: missing, [], an array of strings, or an array
\*              of numbers
\*   portfolio  data.portfolio: missing, [], or an array of entries
\*   summary    data.summary: missing or an object
\*   plan       trading_plan: missing, without signal, with signal 'HOLD',
\*              or with a numeric signal
\*   grade      investment_grade: missing, 'A', or a number
\*   analyses   swing_analysis and position_analysis: missing, or objects
\*              with the plan and grade above
PayloadOf(t, stockList, portfolio, summary, plan, grade, analyses) ==
    [t |-> t, stocks |-> stockList, portfolio |-> portfolio, summary |-> summary,
     plan |-> plan, grade |-> grade, analyses |-> analyses]
NoPayload(t) == PayloadOf(t, "missing", "missing", "missing", "missing", "missing", "missing")
\* data && ... / !data
HasData(d) == d.t = "object"

\* what a render puts on screen: the alert banner's message (Null for no
\* banner), a loader or skeleton, and the body below the form: none, empty
\* (the EmptyState placeholder) or content. A render that throws takes the
\* whole tree down: no component of App catches it.
Screen(alert, loader, body) ==
    [crashed |-> FALSE, alert |-> alert, loader |-> loader, body |-> body]
Crashed == [crashed |-> TRUE, alert |-> Null, loader |-> FALSE, body |-> "none"]
NoScreen == [crashed |-> FALSE, alert |-> Null, loader |-> FALSE, body |-> "unrendered"]

\* {error && <Alert message={error} />}; Alert: if (!message) return null
Alert(message) == IF Truthy(message) THEN message ELSE Null

\* the tabs of AnalysisCard
Tabs == {"plan", "summary", "technicals", "fundamentals", "sentiment"}

\* AnalysisCard: "loader", "none", "content", or "throws". getSignalClasses
\* calls signal.toLowerCase() and getGradeColor grade.startsWith() on any
\* truthy value.
AnalysisCard(d, isLoading, activeTab) ==
    IF isLoading THEN "loader"
    ELSE IF ~HasData(d) THEN "none"
    ELSE IF activeTab = "plan" /\ d.plan = "numeric" THEN "throws"
    ELSE IF activeTab = "summary" /\ d.grade = "numeric" THEN "throws"
    ELSE "content"

\* PortfolioResults: summary.total_budget is read of whatever data.summary is
PortfolioResults(d, isLoading) ==
    IF isLoading THEN "loader"
    ELSE IF ~HasData(d) \/ d.portfolio \in {"missing", "empty"} THEN "empty"
    ELSE IF d.summary = "missing" THEN "throws"
    ELSE "content"

\* data?.stocks?.filter(stock => stock.toLowerCase()...) runs on every render
StocksListPage(r) ==
    IF HasData(r.data) /\ r.data.stocks = "numbers" THEN Crashed
    ELSE Screen(Alert(r.error), r.loading, IF HasData(r.data) THEN "content" ELSE "none")

AnalysisPage(r) ==
    LET card == AnalysisCard(r.data, r.loading, r.tab)
    IN  IF card = "throws" THEN Crashed
        ELSE Screen(Alert(r.error), card = "loader",
                    IF card = "content" THEN "content" ELSE "none")

PortfolioPage(r) ==
    LET results == PortfolioResults(r.data, r.loading)
    IN  IF results = "throws" THEN Crashed
        ELSE Screen(Alert(r.error), results = "loader",
                    IF results = "loader" THEN "none" ELSE results)

\* both cards get no loading prop; each has its own active tab, r.tab here
ComparePage(r) ==
    LET sub == IF r.data.analyses = "present" THEN r.data ELSE NoPayload("undefined")
        card == AnalysisCard(sub, FALSE, r.tab)
    IN  IF HasData(r.data) /\ card = "throws" THEN Crashed
        ELSE Screen(Alert(r.error), r.loading, IF HasData(r.data) THEN "content" ELSE "none")

\* renderPage for the pages with a fetch client
renderPage(r) ==
    CASE r.page = "stocks" -> StocksListPage(r)
      [] r.page \in {"analyze_swing", "analyze_position"} -> AnalysisPage(r)
      [] r.page \in {"portfolio_swing", "portfolio_position"} -> PortfolioPage(r)
      [] OTHER -> ComparePage(r)

IdleRender == [page |-> "home", tab |-> "plan", data |-> NoPayload("null"),
               loading |-> FALSE, error |-> Null]
RenderIdle == renderIn = IdleRender /\ renderOut = NoScreen

\* ------------------------------------------------------------------------
\* ComparePage: the symbol field and the page's fetch client
\* ------------------------------------------------------------------------
\* contents of the symbol field (upper-cased by the change handler)
CompareSymbols == {"", " ", "TCS", "INFY"}
\* !symbol.trim()
Blank(s) == s \in {"", " "}

\* the comparison data of a success envelope answering /api/compare/<s>
NoComparison == [present |-> FALSE, of |-> ""]
ComparisonOf(s) == [present |-> TRUE, of |-> s]

\* The page after its first render: useState(initialSymbol || '') and the
\* initial state of useApi. calls holds, per execute() of the page, the
\* symbol in the url it was invoked with and its position; last is the
\* outcome of the request that settled last.
ComparePageInit(initialSymbol) ==
    [symbol |-> initialSymbol, effects |-> "pending", data |-> NoComparison,
     loading |-> FALSE, error |-> Null, calls |-> << >>, last |-> "none"]
IdleCompare == [ComparePageInit("") EXCEPT !.effects = "unmounted"]

CompareInFlight(c) == {i \in 1..Len(c.calls) : c.calls[i].pc = "fetch"}

\* executeComparison: if (symbol.trim()) execute(), with execute the callback
\* of the render whose url holds the current symbol
executeComparison(c) ==
    IF Blank(c.symbol) THEN c
    ELSE [c EXCEPT !.loading = TRUE, !.error = Null,
                   !.calls = Append(@, [sym |-> c.symbol, pc |-> "fetch"])]

\* useEffect(() => { if (symbol) executeComparison(); }, [symbol, executeComparison])
symbolEffect(c) == IF Truthy(c.symbol) THEN executeComparison(c) ELSE c

\* the effects of the first render; setSymbol(initialSymbol) of the first
\* effect sets the value the state already has
CompareMountEffects ==
    /\ compare.effects = "pending"
    /\ compare' = [symbolEffect(compare) EXCEPT !.effects = "done"]
    /\ UNCHANGED offCompare

\* onChange of the field: setSymbol(s), then the effect of the re-render
setSymbol(s) ==
    /\ compare.effects = "done"
    /\ s # compare.symbol
    /\ Blank(s) \/ Len(compare.calls) < MaxCompareCalls
    /\ compare' = symbolEffect([compare EXCEPT !.symbol = s])
    /\ UNCHANGED offCompare

\* submit: onSymbolChange('') clears App's selectedSymbol, which no effect
\* of the page acts on; executeComparison()
handleCompare ==
    /\ compare.effects = "done"
    /\ ~Blank(compare.symbol)
    /\ Len(compare.calls) < MaxCompareCalls
    /\ compare' = executeComparison(compare)
    /\ UNCHANGED offCompare

\* the i-th request settles: setData(result.data) or setError(message), then
\* setLoading(false)
CompareSettle(i, ok) ==
    /\ i \in CompareInFlight(compare)
    /\ compare' = [compare EXCEPT
                     !.data = IF ok THEN ComparisonOf(compare.calls[i].sym) ELSE @,
                     !.error = IF ok THEN @ ELSE NetMsg,
                     !.loading = FALSE,
                     !.last = IF ok THEN "ok" ELSE "failed",
                     !.calls[i].pc = "done"]
    /\ UNCHANGED offCompare

CompareIdle == compare = IdleCompare

\* ------------------------------------------------------------------------
\* StocksListPage: renders, the identity of execute, and the mount effect
\* ------------------------------------------------------------------------
StocksUrl == "/api/stocks"
\* contents of the search box
SearchTerms == {"", "T", "TC", "TCS", "I"}

\* dependencies that hold the options object itself, which is a new {} in
\* every render
StocksDepsByIdentity(optionsRef) == <<StocksUrl, optionsRef>>

\* [url, JSON.stringify(options)] of a render whose options object (the
\* default {} of useApi) has identity optionsRef
StocksDeps(optionsRef) == <<StocksUrl, JSONStringify(JsObj).s>>

\* The page after its first render. optionsRef and execRef are the
\* identities of the options object and of the execute callback of the last
\* render (two tokens each: only equality with the previous one is read);
\* deps are the dependencies useCallback stored; effectRef is the execute
\* the mount effect last ran with; dirty: a state update awaits its render.
StocksPageInit ==
    [effects |-> "pending", optionsRef |-> 0, deps |-> StocksDeps(0), execRef |-> 0,
     effectRef |-> 0, dirty |-> FALSE, searchTerm |-> "", data |-> Null,
     loading |-> FALSE, error |-> Null, calls |-> << >>]
IdleStocks == [StocksPageInit EXCEPT !.effects = "unmounted"]

\* execute(): setLoading(true); setError(null); fetch. A setState with the
\* value the cell already holds schedules no render.
stocksExecute(st) ==
    [st EXCEPT !.loading = TRUE, !.error = Null, !.calls = Append(@, "fetch"),
               !.dirty = @ \/ ~st.loading \/ st.error # Null]

\* useEffect(() => { execute(); }, [execute]) after the first render
StocksMountEffects ==
    /\ stocks.effects = "pending"
    /\ stocks' = stocksExecute([stocks EXCEPT !.effects = "done", !.effectRef = stocks.execRef])
    /\ UNCHANGED offStocks

\* a re-render: useApi gets a new options object, useCallback keeps execute
\* unless its dependencies changed, and the effect runs again when execute
\* is not the one it last ran with
StocksRender ==
    /\ stocks.effects = "done"
    /\ stocks.dirty
    /\ LET ref == 1 - stocks.optionsRef
           deps == StocksDeps(ref)
           exec == IF deps = stocks.deps THEN stocks.execRef ELSE 1 - stocks.execRef
           r == [stocks EXCEPT !.optionsRef = ref, !.deps = deps, !.execRef = exec,
                               !.dirty = FALSE]
       IN  stocks' = IF exec # stocks.effectRef
                     THEN stocksExecute([r EXCEPT !.effectRef = exec])
                     ELSE r
    /\ UNCHANGED offStocks

\* onChange of the search box
setSearchTerm(t) ==
    /\ stocks.effects = "done"
    /\ ~stocks.dirty
    /\ t # stocks.searchTerm
    /\ stocks' = [stocks EXCEPT !.searchTerm = t, !.dirty = TRUE]
    /\ UNCHANGED offStocks

\* the i-th request settles with a success envelope carrying d, or fails
\* (d = Null) with message m
StocksSettle(i, d, m) ==
    /\ ~stocks.dirty
    /\ i \in 1..Len(stocks.calls)
    /\ stocks.calls[i] = "fetch"
    /\ stocks' = [stocks EXCEPT
                    !.data = IF d # Null THEN d ELSE @,
                    !.error = IF d # Null THEN @ ELSE m,
                    !.loading = FALSE,
                    !.calls[i] = "done",
                    !.dirty = TRUE]
    /\ UNCHANGED offStocks

StocksIdle == stocks = IdleStocks
PagesIdle == CompareIdle /\ StocksIdle

\* ------------------------------------------------------------------------
\* Raw fields the backend can deliver to num
\* ------------------------------------------------------------------------
\* digits, the characters of a numeric literal, and a thousands separator
RawChars == {"0", "1", "9", ".", "-", "e", ","}

RECURSIVE StringsUpTo(_)
StringsUpTo(n) ==
    IF n = 0 THEN {<< >>}
    ELSE LET shorter == StringsUpTo(n - 1)
         IN  shorter \cup {Append(str, c) : str \in {x \in shorter : Len(x) = n - 1}, c \in RawChars}

RawNumbers ==
    {JsNaN, JsInf(FALSE), JsInf(TRUE), JsFin(FALSE, 0, 0), JsFin(TRUE, 0, 0),
     JsFin(FALSE, 1, 0), JsFin(TRUE, 1, 0), JsFin(FALSE, 123456, -2),
     JsFin(FALSE, 99, -1), JsFin(TRUE, 5, -324), JsFin(FALSE, 17, 307)}

RawInputs == {JsNull, JsUndefined} \cup RawNumbers \cup {JsStr(str) : str \in StringsUpTo(MaxStrLen)}

\* one evaluation of num on a raw field
ApplyNum ==
    /\ numIn.t # "none"
    /\ numOut.t = "none"
    /\ numOut' = num(numIn)
    /\ UNCHANGED <<numIn, offNum>>

NumIdle == numIn = NoValue /\ numOut = NoValue

InitNum == useApiInit /\ PagesIdle /\ numIn \in RawInputs /\ numOut = NoValue /\ RowIdle /\ CallIdle /\ AppIdle /\ RenderIdle

NextNum == ApplyNum

SpecNum == InitNum /\ [][NextNum]_vars

\* ------------------------------------------------------------------------
\* Display-formatted fields: a number inside currency symbols, units and text
\* ------------------------------------------------------------------------
\* digits, decimal point, thousands separator, percent sign, space, letters
TextChars == {"1", "5", ".", ",", "%", " ", "e", "R", "s"}

RECURSIVE StringsOver(_, _)
StringsOver(chars, n) ==
    IF n = 0 THEN {<< >>}
    ELSE LET shorter == StringsOver(chars, n - 1)
         IN  shorter \cup {Append(str, c) : str \in {x \in shorter : Len(x) = n - 1}, c \in chars}

TextInputs == {JsStr(str) : str \in StringsOver(TextChars, MaxTextLen)}

InitText == useApiInit /\ PagesIdle /\ numIn \in TextInputs /\ numOut = NoValue /\ RowIdle /\ CallIdle /\ AppIdle /\ RenderIdle

SpecText == InitText /\ [][NextNum]_vars

\* ------------------------------------------------------------------------
\* Portfolio entries the backend can deliver to normalizePortfolioRow
\* ------------------------------------------------------------------------
\* most aliases of one canonical field that carry a value in one entry
MaxPresent == 2

\* the fields of an entry: null, numbers, strings (empty, display-formatted,
\* overflowing, text), a boolean and a nested object
RowVals ==
    {JsNull, Zero, JsFin(FALSE, 25, -1), JsFin(TRUE, 25, -1), JsFin(FALSE, 7, 0),
     JsStr(<< >>), JsStr(<<"9", ".", "9", " ", "%">>), JsStr(<<"1", "e", "9", "9", "9">>),
     JsStr(<<"T", "C", "S">>), JsBool(TRUE), JsObj}

\* the canonical fields with their aliases
RowFields ==
    <<[name |-> "symbol", aliases |-> symbolAliases, kind |-> "text"],
      [name |-> "company", aliases |-> companyAliases, kind |-> "text"],
      [name |-> "score", aliases |-> <<"score">>, kind |-> "num"],
      [name |-> "price", aliases |-> priceAliases, kind |-> "num"],
      [name |-> "stop_loss", aliases |-> stopLossAliases, kind |-> "num"],
      [name |-> "percentage_allocation", aliases |-> allocAliases, kind |-> "num"],
      [name |-> "number_of_shares", aliases |-> sharesAliases, kind |-> "round"],
      [name |-> "risk", aliases |-> riskAliases, kind |-> "num"],
      [name |-> "investment_amount", aliases |-> <<"investment_amount">>, kind |-> "num"]>>

\* the entry in which the aliases in filled (of field f) carry vals, the other
\* aliases of f are missing and every key of the other fields is rest
RowWith(f, filled, vals, rest) ==
    [k \in RowKeys |-> IF k \in filled THEN vals[k]
                       ELSE IF k \in Range(RowFields[f].aliases) THEN JsUndefined
                       ELSE rest]

\* entries in which up to MaxPresent aliases of one field carry a value of
\* RowVals, and every key of the other fields is either missing or 7
IsRowInput(row) ==
    \E f \in 1..Len(RowFields) :
      \E filled \in {S \in SUBSET Range(RowFields[f].aliases) : Cardinality(S) <= MaxPresent} :
        \E vals \in [filled -> RowVals] :
          \E rest \in {JsUndefined, JsFin(FALSE, 7, 0)} :
            row = RowWith(f, filled, vals, rest)

\* one evaluation of normalizePortfolioRow on an entry
ApplyRow ==
    /\ rowOut = NoRow
    /\ rowOut' = normalizePortfolioRow(rowIn)
    /\ UNCHANGED <<rowIn, offRow>>

InitRow == useApiInit /\ PagesIdle /\ NumIdle /\ CallIdle /\ AppIdle /\ RenderIdle /\ IsRowInput(rowIn) /\ rowOut = NoRow

NextRow == ApplyRow

SpecRow == InitRow /\ [][NextRow]_vars

\* ------------------------------------------------------------------------
\* Invocations of execute: the hook's options and the argument passed
\* ------------------------------------------------------------------------
\* values a caller configures for the headers it sets
ConfiguredHeaders ==
    {hs \in [HeaderNames -> {Missing, "text/plain", "Bearer t"}] :
        /\ hs["Content-Type"] \in {Missing, "text/plain"}
        /\ hs["Authorization"] \in {Missing, "Bearer t"}}
\* the options argument of useApi ({} when omitted)
OptionSets ==
    [method : {Missing, "GET", "POST"}, credentials : {Missing, "include"},
     headers : ConfiguredHeaders]
\* { budget, risk_appetite } as PortfolioPage builds it; parseFloat of an
\* empty budget field is NaN
PortfolioBody(budget) ==
    JsObject(<<Member(<<"b", "u", "d", "g", "e", "t">>, budget),
               Member(<<"r", "i", "s", "k", "_", "a", "p", "p", "e", "t", "i", "t", "e">>,
                      JsStr(<<"L", "O", "W">>))>>)
\* values passed to execute
CallBodies ==
    {JsUndefined, JsNull, Zero, JsFin(FALSE, 5, 3), JsFin(TRUE, 25, -1), JsNaN,
     JsStr(<< >>), JsStr(<<"a">>), JsBool(FALSE), JsBool(TRUE),
     JsObj, PortfolioBody(JsFin(FALSE, 5, 3)), PortfolioBody(JsNaN)}
CallInputs ==
    {[options |-> o, supplied |-> FALSE, body |-> JsUndefined] : o \in OptionSets}
      \cup [options : OptionSets, supplied : {TRUE}, body : CallBodies]

\* the synchronous part of execute that builds the request
BuildRequest ==
    /\ callOut = NoCall
    /\ callOut' = fetchOptions(callIn.options, BodyParam(callIn.supplied, callIn.body))
    /\ UNCHANGED <<callIn, offCall>>

InitCall == useApiInit /\ PagesIdle /\ NumIdle /\ RowIdle /\ AppIdle /\ RenderIdle /\ callIn \in CallInputs /\ callOut = NoCall

NextCall == BuildRequest

SpecCall == InitCall /\ [][NextCall]_vars

\* ------------------------------------------------------------------------
\* Navigation between page views (App, lines 926-988)
\* ------------------------------------------------------------------------
\* setPage(p) with p another page: the motion.div keyed by the old page starts
\* its exit; under mode="wait" the new page is not mounted before the exit
\* ends. A view whose exit is still playing is kept when its page is selected
\* again.
setPage(p) ==
    /\ p # page
    /\ ~EffectsPending
    /\ \/ \E v \in ViewIds : views[v].status = "exiting" /\ views[v].page = p
       \/ Cardinality(Created) < MaxViews
    /\ page' = p
    /\ views' = [v \in ViewIds |->
                   IF views[v].status = "mounted"
                     THEN [views[v] EXCEPT !.status = "exiting"]
                   ELSE IF views[v].status = "exiting" /\ views[v].page = p
                     THEN [views[v] EXCEPT !.status = "mounted"]
                   ELSE views[v]]
    /\ UNCHANGED offApp

\* the exit animation ends: the old view is unmounted and the component of
\* the current page is mounted with fresh hook state
ExitComplete ==
    \E v \in ViewIds :
      /\ views[v].status = "exiting"
      /\ LET n == Cardinality(Created) + 1 IN
           views' = [w \in ViewIds |->
                       IF w = v THEN [views[v] EXCEPT !.status = "discarded"]
                       ELSE IF w = n THEN FreshView(page)
                       ELSE views[w]]
      /\ UNCHANGED <<page, offApp>>

\* the view's execute(): setLoading(true); setError(null); fetch(...)
Invoke(view) ==
    [view EXCEPT !.loading = TRUE, !.error = Null, !.calls = Append(view.calls, "fetch")]

\* the effects of a first render. StocksListPage runs execute(); ComparePage
\* runs it when App handed it a symbol (auto); the other pages run none.
RunEffects(v, auto) ==
    /\ views[v].status = "rendered"
    /\ views' = [views EXCEPT ![v] =
                   IF views[v].page = "stocks" \/ (views[v].page = "compare" /\ auto)
                   THEN [Invoke(views[v]) EXCEPT !.status = "mounted"]
                   ELSE [views[v] EXCEPT !.status = "mounted"]]
    /\ UNCHANGED <<page, offApp>>

\* a handler of the view (form submit, Analyze button, symbol edit) calls
\* execute(); a view that plays its exit is still on screen
ViewExecute(v) ==
    /\ ~EffectsPending
    /\ views[v].status \in {"mounted", "exiting"}
    /\ views[v].page \in ClientPages
    /\ TotalCalls < MaxViewCalls
    /\ views' = [views EXCEPT ![v] = Invoke(views[v])]
    /\ UNCHANGED <<page, offApp>>

\* a store shared by the views: a response whose view is gone is written to
\* the views that are on screen
ViewSettleShared(v, i, out) ==
    /\ ~EffectsPending
    /\ i \in 1..Len(views[v].calls)
    /\ views[v].calls[i] = "fetch"
    /\ views' = [w \in ViewIds |->
                   IF w = v /\ views[v].status = "discarded"
                     THEN [views[v] EXCEPT !.calls[i] = "dropped"]
                   ELSE IF w = v \/ (views[v].status = "discarded"
                                      /\ views[w].status \in {"mounted", "exiting"})
                     THEN [views[w] EXCEPT
                             !.data = IF out.ok THEN out.value ELSE @,
                             !.error = IF out.ok THEN @ ELSE out.value,
                             !.loading = FALSE,
                             !.calls = IF w = v THEN [@ EXCEPT ![i] = "done"] ELSE @]
                   ELSE views[w]]
    /\ UNCHANGED <<page, offApp>>

\* the i-th request of view v settles with out: setData or setError, then
\* setLoading(false), on the state cells of v. State updates of an unmounted
\* component are dropped by React.
ViewSettle(v, i, out) ==
    /\ ~EffectsPending
    /\ i \in 1..Len(views[v].calls)
    /\ views[v].calls[i] = "fetch"
    /\ views' = [views EXCEPT ![v] =
                   IF views[v].status = "discarded"
                   THEN [views[v] EXCEPT !.calls[i] = "dropped"]
                   ELSE [views[v] EXCEPT
                           !.data = IF out.ok THEN out.value ELSE @,
                           !.error = IF out.ok THEN @ ELSE out.value,
                           !.loading = FALSE,
                           !.calls[i] = "done"]]
    /\ UNCHANGED <<page, offApp>>

InitApp == useApiInit /\ PagesIdle /\ NumIdle /\ RowIdle /\ CallIdle /\ RenderIdle /\ AppInit

NextApp ==
    \/ \E p \in Pages : setPage(p)
    \/ ExitComplete
    \/ \E v \in ViewIds, auto \in BOOLEAN : RunEffects(v, auto)
    \/ \E v \in ViewIds : ViewExecute(v)
    \/ \E v \in ViewIds, i \in 1..(MaxViewCalls + 1), out \in Outcomes :
         ViewSettle(v, i, out)

SpecApp == InitApp /\ [][NextApp]_vars

\* ------------------------------------------------------------------------
\* Fetch Results a page can be rendered with
\* ------------------------------------------------------------------------
\* data of a success envelope: absent, null, or any object
ResultData ==
    {NoPayload("undefined"), NoPayload("null")}
      \cup [t : {"object"}, stocks : {"missing", "empty", "strings", "numbers"},
            portfolio : {"missing", "empty", "rows"}, summary : {"missing", "present"},
            plan : {"missing", "nosignal", "hold", "numeric"},
            grade : {"missing", "A", "numeric"}, analyses : {"missing", "present"}]
\* overlapping invocations reach every combination of data, loading and
\* error; error is null or a non-empty message. Only AnalysisCard has tabs.
RenderInputs ==
    {r \in [page : ClientPages, tab : Tabs, data : ResultData, loading : BOOLEAN,
            error : {Null, "bad symbol"}] :
        r.page \in {"stocks", "portfolio_swing", "portfolio_position"} => r.tab = "plan"}

Render ==
    /\ renderOut = NoScreen
    /\ renderOut' = renderPage(renderIn)
    /\ UNCHANGED <<renderIn, offRender>>

InitRender ==
    /\ useApiInit /\ PagesIdle /\ NumIdle /\ RowIdle /\ CallIdle /\ AppIdle
    /\ renderIn \in RenderInputs
    /\ renderOut = NoScreen

NextRender == Render

SpecRender == InitRender /\ [][NextRender]_vars

\* ------------------------------------------------------------------------
\* Specification of the Compare page
\* ------------------------------------------------------------------------
\* App mounts the page with selectedSymbol: empty, or the stock picked in
\* the stocks list
InitCompare ==
    /\ useApiInit /\ NumIdle /\ RowIdle /\ CallIdle /\ AppIdle /\ RenderIdle
    /\ StocksIdle
    /\ compare \in {ComparePageInit(s) : s \in {"", "TCS"}}

NextCompare ==
    \/ CompareMountEffects
    \/ \E s \in CompareSymbols : setSymbol(s)
    \/ handleCompare
    \/ \E i \in 1..MaxCompareCalls, ok \in BOOLEAN : CompareSettle(i, ok)

SpecCompare == InitCompare /\ [][NextCompare]_vars

\* ------------------------------------------------------------------------
\* Specification of the stocks list page
\* ------------------------------------------------------------------------
InitStocks ==
    /\ useApiInit /\ NumIdle /\ RowIdle /\ CallIdle /\ AppIdle /\ RenderIdle
    /\ CompareIdle
    /\ stocks = StocksPageInit

NextStocks ==
    \/ StocksMountEffects
    \/ StocksRender
    \/ \E t \in SearchTerms : setSearchTerm(t)
    \/ \E i \in 1..Len(stocks.calls), d \in Payloads \cup {Null},
          m \in {NetMsg, ParseMsg, GenericMsg} :
         StocksSettle(i, d, m)

SpecStocks == InitStocks /\ [][NextStocks]_vars

\* ------------------------------------------------------------------------
\* Specification of the fetch client
\* ------------------------------------------------------------------------

Init == useApiInit /\ PagesIdle /\ NumIdle /\ RowIdle /\ CallIdle /\ AppIdle /\ RenderIdle

Next ==
    \/ execute
    \/ \E r \in ReqIds : FetchFulfil(r)
    \/ \E r \in ReqIds : FetchReject(r)
    \/ \E r \in ReqIds : JsonReject(r)
    \/ \E r \in ReqIds : \E result \in Envelopes : JsonFulfil(r, result)

Spec == Init /\ [][Next]_vars

\* the transport settles every call: the promise of fetch() resolves or
\* rejects, and so does the promise of response.json()
FetchSettles(r) == FetchFulfil(r) \/ FetchReject(r)
JsonSettles(r) == JsonReject(r) \/ \E result \in Envelopes : JsonFulfil(r, result)

SpecLive ==
    Init /\ [][Next]_vars
      /\ \A r \in ReqIds : WF_vars(FetchSettles(r)) /\ WF_vars(JsonSettles(r))

\* ------------------------------------------------------------------------
\* Properties of the fetch client (checked under Spec)
\* ------------------------------------------------------------------------
Done(r) == reqs[r].pc = "done"
Succeeded(r) == Done(r) /\ reqs[r].ret.success = "true"
Failed(r) == Done(r) /\ reqs[r].ret.success = "false"
\* position of a settled request in the order of settlement
Pos(r) == CHOOSE i \in 1..Len(settleOrder) : settleOrder[i] = r
LastSettled(r) == settleOrder # << >> /\ settleOrder[Len(settleOrder)] = r
\* the step in which request r settles, and the step that invokes execute
Settles(r) == reqs[r].pc # "done" /\ reqs'[r].pc = "done"
Invokes == nInvoked' = nInvoked + 1
\* the JSON result delivered to r, once it has settled
EnvOf(r) == reqs[r].got.env
GotEnvelope(r) == reqs[r].got.kind = "json" /\ ~EnvOf(r).isNull

\* C1: of two overlapping invocations that both succeed, when the one invoked
\* first settles after the one invoked second (and no success settles later),
\* data is the payload delivered to the first invocation: responses are
\* applied in settlement order and the older response is not discarded.
C1_SettlementOrder ==
    \A i, j \in ReqIds :
        (/\ i < j
         /\ Succeeded(i) /\ Succeeded(j)
         /\ Pos(j) < Pos(i)
         /\ \A k \in ReqIds : Succeeded(k) => Pos(k) <= Pos(i))
        => data = EnvOf(i).data

C1_Witness ==
    \E i, j \in ReqIds :
        /\ i < j
        /\ Succeeded(i) /\ Succeeded(j)
        /\ Pos(j) < Pos(i)
        /\ LastSettled(i)
        /\ EnvOf(i).data \in Payloads
        /\ EnvOf(j).data \in Payloads
        /\ EnvOf(i).data # EnvOf(j).data
        /\ data = EnvOf(i).data

\* C2: whenever an invocation settles as Succeeded, the state right after is
\* data = the envelope's data, loading = false, error = null, in every
\* interleaving of overlapping invocations.
C2_SucceededState ==
    [][\A r \in ReqIds :
          (Settles(r) /\ reqs'[r].ret.success = "true")
          => (data' = reqs'[r].got.env.data /\ loading' = FALSE /\ error' = Null)]_vars

\* C3: an execute() that overlaps no other invocation and receives an envelope
\* with success true and data D resolves to {success: true, data: D} and
\* leaves data = D, loading = false, error = null.
C3_SingleSuccess ==
    [][\A r \in ReqIds :
          (/\ Settles(r)
           /\ reqs[r].alone
           /\ reqs'[r].got.kind = "json"
           /\ ~reqs'[r].got.env.isNull
           /\ reqs'[r].got.env.success = "true")
          => (/\ reqs'[r].ret = RetOk(reqs'[r].got.env.data)
              /\ data' = reqs'[r].got.env.data
              /\ loading' = FALSE
              /\ error' = Null)]_vars

C3_Witness ==
    /\ Failed(1)
    /\ Succeeded(2)
    /\ reqs[2].alone
    /\ LastSettled(2)
    /\ reqs[2].ret = RetOk("D1")
    /\ data = "D1"
    /\ loading = FALSE
    /\ error = Null

\* C4: when the envelope's success flag is falsy, execute() resolves to
\* {success: false, error: M}, M being the envelope's error message when it
\* carries one (a non-empty string) and 'An unknown error occurred' otherwise;
\* error becomes M, loading false, and the settlement does not touch data
\* (for a call that overlapped no other, data is what it was at invocation).
C4_EnvelopeFailure ==
    [][\A r \in ReqIds :
          (/\ Settles(r)
           /\ reqs'[r].got.kind = "json"
           /\ ~reqs'[r].got.env.isNull
           /\ reqs'[r].got.env.success \in {"false", Undefined})
          => LET env == reqs'[r].got.env
                 M == IF env.error \notin {Undefined, ""} THEN env.error ELSE GenericMsg
             IN  /\ reqs'[r].ret = RetFail(M)
                 /\ error' = M
                 /\ loading' = FALSE
                 /\ data' = data
                 /\ (reqs[r].alone => data' = reqs[r].data0)]_vars

C4_Witness ==
    \E r \in ReqIds :
        /\ Failed(r)
        /\ LastSettled(r)
        /\ GotEnvelope(r)
        /\ EnvOf(r).success = "false"
        /\ EnvOf(r).error = Undefined
        /\ reqs[r].ret = RetFail(GenericMsg)
        /\ error = GenericMsg
        /\ data \in Payloads
        /\ loading = FALSE

\* C5: execute() never rejects; when the transport throws or the body is not
\* JSON it resolves to {success: false, error: <thrown message>}, error is that
\* message, loading false, data untouched; and after any failed settlement the
\* state is determined by the message alone, whatever kind of failure it was.
C5_ThrowResolves ==
    /\ [](\A r \in ReqIds : reqs[r].ret.settled # "rejected")
    /\ [][\A r \in ReqIds :
            /\ (Settles(r) /\ reqs'[r].got.kind = "netfail")
                  => reqs'[r].ret = RetFail(NetMsg)
            /\ (Settles(r) /\ reqs'[r].got.kind = "parsefail")
                  => reqs'[r].ret = RetFail(ParseMsg)
            /\ (Settles(r) /\ reqs'[r].ret.success # "true")
                  => (/\ reqs'[r].ret = RetFail(error')
                      /\ loading' = FALSE
                      /\ data' = data)]_vars

C5_Witness ==
    \E r \in ReqIds :
        /\ Done(r)
        /\ LastSettled(r)
        /\ reqs[r].got.kind = "parsefail"
        /\ reqs[r].ret = RetFail(ParseMsg)
        /\ error = ParseMsg
        /\ data \in Payloads
        /\ loading = FALSE

\* C6: the client starts with data = null, loading = false, error = null, and
\* every execute() invocation, from any state, sets loading = true and
\* error = null and leaves data unchanged, with its request awaiting fetch.
C6_InitialAndPending ==
    /\ (data = Null /\ loading = FALSE /\ error = Null)
    /\ [][Invokes => (/\ loading' = TRUE
                      /\ error' = Null
                      /\ data' = data
                      /\ reqs'[nInvoked'].pc = "fetch")]_vars

C6_Witness ==
    /\ nInvoked = 2
    /\ Failed(1)
    /\ reqs[2].alone
    /\ reqs[2].pc = "fetch"
    /\ loading = TRUE
    /\ error = Null

NumApplied == numOut.t # "none"
Absent(v) == v.t = "null" \/ v.t = "undefined" \/ (v.t = "string" /\ v.s = << >>)

\* C8: for every input (absent, any number, any string) num returns a finite
\* number.
C8_AlwaysFinite == NumApplied => isFinite(numOut)

\* C9: for null, undefined and the empty string num returns exactly 0.
C9_AbsentIsZero == (NumApplied /\ Absent(numIn)) => numOut = Zero

C9_Witness == NumApplied /\ numIn = JsUndefined /\ numOut = Zero

\* C10: for an input of type number num returns the number itself when it is
\* finite and 0 when it is NaN, +Infinity or -Infinity.
C10_NumberInput ==
    (NumApplied /\ numIn.t = "number")
    => numOut = (IF numIn.k = "fin" THEN numIn ELSE Zero)

C10_Witness ==
    /\ NumApplied
    /\ numIn = JsInf(TRUE)
    /\ numOut = Zero

\* ------------------------------------------------------------------------
\* Properties of num on display-formatted strings (checked under SpecText)
\* ------------------------------------------------------------------------
HasDigit(str) == \E i \in 1..Len(str) : str[i] \in Digits
IsDecoration(str) == ~HasDigit(str)
\* digits, optionally followed by a decimal point and digits
IsNumeral(str) ==
    LET dot == IndexOf(str, {"."})
        ip == IF dot = 0 THEN str ELSE SubSeq(str, 1, dot - 1)
        fp == IF dot = 0 THEN << >> ELSE SubSeq(str, dot + 1, Len(str))
    IN  /\ ip # << >> /\ IsDigits(ip)
        /\ dot # 0 => (fp # << >> /\ IsDigits(fp))
\* the numeral str[i..j] does not touch a point or comma of the decoration
Detached(str, i, j) ==
    /\ i > 1 => str[i - 1] \notin {".", ","}
    /\ j < Len(str) => str[j + 1] \notin {".", ","}

\* C11: for a string made of one numeral surrounded by decoration without
\* digits (symbols, percent signs, separators, spaces, letters, punctuation)
\* num returns the value of the numeral; a string without digits yields 0.
C11_DecoratedString ==
    (NumApplied /\ numIn.t = "string")
    => LET str == numIn.s
       IN  /\ ~HasDigit(str) => numOut = Zero
           /\ \A i, j \in 1..Len(str) :
                (/\ i <= j
                 /\ IsDecoration(SubSeq(str, 1, i - 1))
                 /\ IsDecoration(SubSeq(str, j + 1, Len(str)))
                 /\ IsNumeral(SubSeq(str, i, j))
                 /\ Detached(str, i, j))
                => numOut = StringToNumber(SubSeq(str, i, j))

\* ------------------------------------------------------------------------
\* Properties of normalizePortfolioRow (checked under SpecRow)
\* ------------------------------------------------------------------------
RowApplied == rowOut # NoRow
FieldIds == 1..Len(RowFields)
\* what a canonical field stores for the raw value it selected
Stored(f, v) ==
    CASE RowFields[f].kind = "text" -> v
      [] RowFields[f].kind = "num" -> num(v)
      [] OTHER -> MathRound(num(v))
Fallback(f) == IF RowFields[f].kind = "text" THEN JsStr(<< >>) ELSE Zero
\* index of the first alias of f whose raw value satisfies P, 0 when none does
FirstAlias(f, P(_)) ==
    LET al == RowFields[f].aliases
    IN  IF \E i \in 1..Len(al) : P(rowIn[al[i]])
        THEN CHOOSE i \in 1..Len(al) :
                P(rowIn[al[i]]) /\ \A j \in 1..(i - 1) : ~P(rowIn[al[j]])
        ELSE 0
\* the value of field f when the first alias satisfying P is the one selected
Selected(f, P(_)) ==
    LET i == FirstAlias(f, P)
    IN  IF i = 0 THEN Stored(f, Fallback(f)) ELSE Stored(f, rowIn[RowFields[f].aliases[i]])

IsDefined(v) == v.t # "undefined"
IsText(v) == v.t = "string" /\ v.s # << >>
IsNumberOrText(v) == v.t = "number" \/ IsText(v)
\* an alias carries a value: a non-empty string, or for a numeric field a number
Carries(f, v) == IF RowFields[f].kind = "text" THEN IsText(v) ELSE IsNumberOrText(v)
\* an alias is usable by the code: truthy for symbol and company, neither
\* null nor undefined for the numeric fields
Usable(f, v) == IF RowFields[f].kind = "text" THEN JsTruthy(v) ELSE ~Nullish(v)

C13_FirstDefined ==
    RowApplied =>
      \A f \in FieldIds : rowOut[RowFields[f].name] = Selected(f, IsDefined)

\* C13 amended: a numeric field is taken from the first alias that is neither
\* undefined nor null (0 and '' stop the probe), symbol and company from the
\* first alias that is truthy; the fallback is used when no alias qualifies.
C13_FirstUsable ==
    RowApplied =>
      \A f \in FieldIds :
        LET usable(v) == Usable(f, v)
        IN  rowOut[RowFields[f].name] = Selected(f, usable)

C13_Witness ==
    /\ RowApplied
    /\ rowIn["price"] = JsNull
    /\ rowIn["current_price"] = JsFin(FALSE, 7, 0)
    /\ rowIn["ltp"] = JsUndefined
    /\ rowOut.price = JsFin(FALSE, 7, 0)

\* C14: no canonical field of the result is undefined, and the empty mapping
\* gives '' for symbol and company and 0 for every numeric field.
C14_NoUndefinedField ==
    RowApplied =>
      /\ \A f \in FieldIds : rowOut[RowFields[f].name].t \notin {"undefined", "none"}
      /\ rowIn = EmptyRow
           => \A f \in FieldIds : rowOut[RowFields[f].name] = Fallback(f)

C14_Witness ==
    /\ RowApplied
    /\ rowIn = EmptyRow
    /\ rowOut.symbol = JsStr(<< >>)
    /\ rowOut.number_of_shares = Zero

\* C15: whatever the field values of the entry, symbol and company of the
\* result are strings and the seven numeric fields are finite numbers.
C15_SemanticTypes ==
    RowApplied =>
      \A f \in FieldIds :
        IF RowFields[f].kind = "text"
        THEN rowOut[RowFields[f].name].t = "string"
        ELSE isFinite(rowOut[RowFields[f].name])

\* the integer a finite value with e >= 0 denotes, with its sign
IntValue(v) == (IF v.neg THEN -1 ELSE 1) * v.m * Pow10(v.e)
IsInteger(v) == isFinite(v) /\ v.e >= 0
Abs(n) == IF n < 0 THEN 0 - n ELSE n
\* out is an integer at distance at most 1/2 from the finite value x
NearestInteger(out, x) ==
    /\ IsInteger(out)
    /\ isFinite(x)
    /\ IF x.e >= 0 THEN out = x
       ELSE IF 0 - x.e > 8 THEN out.m = 0
       ELSE 2 * Abs(IntValue(out) * Pow10(0 - x.e) - (IF x.neg THEN -1 ELSE 1) * x.m)
              <= Pow10(0 - x.e)

\* C16: number_of_shares is an integer, the nearest one to the normalized
\* value of the first present shares alias, and no other numeric field is
\* rounded.
C16_SharesRounded ==
    RowApplied =>
      /\ NearestInteger(rowOut.number_of_shares, num(Coalesce(rowIn, sharesAliases, Zero)))
      /\ \A f \in FieldIds :
           RowFields[f].kind = "num"
             => rowOut[RowFields[f].name] = num(Coalesce(rowIn, RowFields[f].aliases, Zero))

\* ------------------------------------------------------------------------
\* Properties of the request construction (checked under SpecCall)
\* ------------------------------------------------------------------------
CallBuilt == callOut # NoCall
\* the invocation passed a body (anything but nothing, undefined or null)
BodySupplied == callIn.supplied /\ ~Nullish(callIn.body)

\* C17: the request carries the configured options, its headers are the
\* default Content-Type merged with the configured headers (a configured
\* header replaces the default of the same name), and its body is the JSON
\* text of the supplied body for every supplied body, and missing when none
\* is supplied.
C17_RequestConstruction ==
    CallBuilt =>
      /\ callOut.method = callIn.options.method
      /\ callOut.credentials = callIn.options.credentials
      /\ \A h \in HeaderNames :
           callOut.headers[h] = IF callIn.options.headers[h] # Missing
                                THEN callIn.options.headers[h]
                                ELSE DefaultHeaders[h]
      /\ callOut.body = IF BodySupplied THEN JSONStringify(callIn.body) ELSE NoValue

\* ------------------------------------------------------------------------
\* Properties of the page views (checked under SpecApp)
\* ------------------------------------------------------------------------
FetchResult(view) == <<view.data, view.loading, view.error>>
\* this step invokes or settles a request of view v
ClientStep(v) == views'[v].calls # views[v].calls

\* C18: an execute() or a settling response of one view's client leaves the
\* data, loading and error of every other view unchanged; a request that
\* settles after its view was discarded changes no Fetch Result at all; and a
\* view that is mounted starts from data = null, loading = false,
\* error = null.
C18_PrivateResult ==
    [][\A v \in ViewIds :
         /\ ClientStep(v) =>
              \A w \in ViewIds \ {v} :
                views[w].status # "unborn"
                  => FetchResult(views'[w]) = FetchResult(views[w])
         /\ (ClientStep(v) /\ views[v].status = "discarded") =>
              FetchResult(views'[v]) = FetchResult(views[v])
         /\ (views[v].status = "unborn" /\ views'[v].status # "unborn") =>
              FetchResult(views'[v]) = <<Null, FALSE, Null>>]_vars

\* a request settled after its view was discarded, and the view of a client
\* page mounted afterwards still shows what it started from
C18_Witness ==
    \E v, w \in ViewIds :
      /\ views[v].status = "discarded"
      /\ \E i \in 1..Len(views[v].calls) : views[v].calls[i] = "dropped"
      /\ views[v].loading
      /\ views[w].status = "mounted"
      /\ views[w].page \in ClientPages
      /\ FetchResult(views[w]) = <<Null, FALSE, Null>>

\* ------------------------------------------------------------------------
\* Properties of the rendering (checked under SpecRender)
\* ------------------------------------------------------------------------
Rendered == renderOut # NoScreen

\* C19: on every page with a fetch client and for every Fetch Result, a set
\* error is shown in an alert banner with that message, absent data with
\* absent error shows an empty or neutral state, and the render never
\* throws, whatever data the success envelope delivered.
C19_RenderSafe ==
    Rendered =>
      /\ ~renderOut.crashed
      /\ renderIn.error # Null => renderOut.alert = renderIn.error
      /\ (~HasData(renderIn.data) /\ renderIn.error = Null) =>
           (renderOut.alert = Null /\ renderOut.body \in {"none", "empty"})

\* ------------------------------------------------------------------------
\* Progress of the fetch client (checked under SpecLive)
\* ------------------------------------------------------------------------
\* C20: whenever no request is in flight loading is false; hence, when every
\* transport call settles, a client that is loading always comes back to
\* loading = false, however the invocations overlap.
C20_LoadingSettles ==
    /\ [](InFlight = {} => ~loading)
    /\ loading ~> ~loading

\* two overlapping invocations have both settled and loading is false
C20_Witness ==
    /\ nInvoked >= 2
    /\ InFlight = {}
    /\ \E r \in ReqIds : Done(r) /\ ~reqs[r].alone
    /\ ~loading

\* ------------------------------------------------------------------------
\* Loading while requests overlap (checked under Spec)
\* ------------------------------------------------------------------------
\* C21: in every state of a fetch client in which at least one request is
\* still in flight, loading is true, however the invocations overlap.
C21_LoadingWhileInFlight == InFlight # {} => loading

\* ------------------------------------------------------------------------
\* Properties of the Compare page (checked under SpecCompare)
\* ------------------------------------------------------------------------
\* C22: whenever no request of the Compare page is in flight, the symbol
\* field is not blank and the request that settled last succeeded, the data
\* on display is the response to the request for the symbol in the field.
C22_ShowsCurrentSymbol ==
    (/\ CompareInFlight(compare) = {}
     /\ ~Blank(compare.symbol)
     /\ compare.last = "ok")
      => compare.data = ComparisonOf(compare.symbol)

\* ------------------------------------------------------------------------
\* Properties of the stocks list page (checked under SpecStocks)
\* ------------------------------------------------------------------------
\* C23: a mounted stocks list page has issued exactly one request, and
\* execute keeps its identity: neither the state updates of the request nor
\* typing in the search box issue a further one.
C23_OneRequestPerMount ==
    /\ Len(stocks.calls) = (IF stocks.effects = "done" THEN 1 ELSE 0)
    /\ stocks.execRef = StocksPageInit.execRef

\* the only request has settled and the user has typed in the search box
C23_Witness ==
    /\ stocks.effects = "done"
    /\ stocks.calls = <<"done">>
    /\ stocks.searchTerm = "TC"
    /\ ~stocks.dirty

\* ------------------------------------------------------------------------
\* Idempotence of the normalizers (checked under SpecRow)
\* ------------------------------------------------------------------------
\* a normalized row read as an input mapping: the keys it lacks are undefined
AsEntry(row) == [k \in RowKeys |-> IF k \in DOMAIN row THEN row[k] ELSE JsUndefined]

\* C24: normalization is idempotent: num(num(v)) = num(v) for every raw
\* value v of an entry, and normalizing a normalized row gives the same row.
C24_Idempotent ==
    RowApplied =>
      /\ \A k \in RowKeys : num(num(rowIn[k])) = num(rowIn[k])
      /\ normalizePortfolioRow(AsEntry(rowOut)) = rowOut

====
